---------------------------- MODULE Spec2Model ----------------------------
(***************************************************************************)
(* A model of "Apk Renamer/apk_renamer.py": the metadata extraction        *)
(* (get_apk_info), the rename operation (rename_apk), the drag-and-drop    *)
(* handler (handle_drop) and the command-line entry point (__main__).      *)
(*                                                                         *)
(* Text is a sequence of one-character strings, so that the string         *)
(* operations of the code (replace, lower, endswith, re.search,            *)
(* os.path.split/join/normpath) are computed character by character.       *)
(* The platform library is modelled for both os.name values ("posix",      *)
(* "nt"); "nt" paths are drive-less and never begin with two separators.   *)
(***************************************************************************)
EXTENDS Integers, Sequences, FiniteSets, TLC

(***************************************************************************)
(* Text helpers                                                            *)
(***************************************************************************)
\* Python's None: a value no text equals (a text holds one-character strings).
None == <<"None">>

Dot == <<".">>
DotDot == <<".", ".">>
ApkExt == <<".", "a", "p", "k">>

StartsWithAt(s, p, i) ==
    /\ i + Len(p) - 1 <= Len(s)
    /\ \A k \in 1..Len(p) : s[i + k - 1] = p[k]

StartsWith(s, p) == StartsWithAt(s, p, 1)

EndsWith(s, p) ==
    /\ Len(p) <= Len(s)
    /\ StartsWithAt(s, p, Len(s) - Len(p) + 1)

\* str.replace(old, new) for one-character old and new.
Replace(s, old, new) == [i \in 1..Len(s) |-> IF s[i] = old THEN new ELSE s[i]]

LowerChar(c) ==
    CASE c = "A" -> "a"
      [] c = "P" -> "p"
      [] c = "K" -> "k"
      [] c = "X" -> "x"
      [] OTHER -> c

\* str.lower()
Lower(s) == [i \in 1..Len(s) |-> LowerChar(s[i])]

(***************************************************************************)
(* os.path for the two platforms                                           *)
(***************************************************************************)
Platforms == {"posix", "nt"}

Seps(P) == IF P = "nt" THEN {"\\", "/"} ELSE {"/"}

Sep(P) == IF P = "nt" THEN "\\" ELSE "/"

\* The largest member of a set of naturals, 0 for the empty set.
Max(S) == IF S = {} THEN 0 ELSE CHOOSE i \in S : \A j \in S : j <= i

\* The smallest member of a non-empty set of naturals.
Min(S) == CHOOSE i \in S : \A j \in S : i <= j

\* s.rstrip(separators): s up to its last character that is no separator.
RStripSeps(P, s) == SubSeq(s, 1, Max({i \in 1..Len(s) : s[i] \notin Seps(P)}))

\* The index of the last separator of p, 0 when it has none.
LastSep(P, p) == Max({i \in 1..Len(p) : p[i] \in Seps(P)})

\* os.path.split(p): <<head, tail>>; the head loses its trailing separators
\* unless it consists of separators only.
PathSplit(P, p) ==
    LET i    == LastSep(P, p)
        head == SubSeq(p, 1, i)
        tail == SubSeq(p, i + 1, Len(p))
        cut  == RStripSeps(P, head)
    IN <<IF cut = <<>> THEN head ELSE cut, tail>>

\* os.path.join(a, b)
PathJoin(P, a, b) ==
    IF b # <<>> /\ b[1] \in Seps(P) THEN b
    ELSE IF a = <<>> \/ a[Len(a)] \in Seps(P) THEN a \o b
    ELSE a \o <<Sep(P)>> \o b

\* str.split(sep) on the platform's separators: the components, empty ones kept.
\* The k-th component runs from after the (k-1)-th separator to before the
\* k-th one.
SplitComps(P, s) ==
    LET at == {i \in 1..Len(s) : s[i] \in Seps(P)}
        cut(k) == IF k = 0 THEN 0
                  ELSE IF k > Cardinality(at) THEN Len(s) + 1
                  ELSE CHOOSE i \in at : Cardinality({j \in at : j <= i}) = k
    IN [k \in 1..(Cardinality(at) + 1) |-> SubSeq(s, cut(k - 1) + 1, cut(k) - 1)]

\* The loop of normpath: "" and "." are dropped, ".." removes the component
\* before it, is dropped at the root and is kept at the start of a relative path.
NormStep(acc, c, rooted) ==
    IF c = <<>> \/ c = Dot THEN acc
    ELSE IF c # DotDot
            \/ (~rooted /\ acc = <<>>)
            \/ (acc # <<>> /\ acc[Len(acc)] = DotDot)
         THEN Append(acc, c)
    ELSE IF acc # <<>> THEN SubSeq(acc, 1, Len(acc) - 1)
    ELSE acc

\* The loop runs over comps[i..]; acc holds the components kept so far. (The
\* one-element set gives the next acc its value before the loop goes on.)
RECURSIVE NormComps(_, _, _, _)
NormComps(comps, i, rooted, acc) ==
    IF i > Len(comps) THEN acc
    ELSE CHOOSE r \in {NormComps(comps, i + 1, rooted, a) :
                          a \in {NormStep(acc, comps[i], rooted)}} : TRUE

\* sep.join(comps[i..])
RECURSIVE JoinFrom(_, _, _)
JoinFrom(sep, comps, i) ==
    IF i > Len(comps) THEN <<>>
    ELSE IF i = Len(comps) THEN comps[i]
    ELSE comps[i] \o <<sep>> \o JoinFrom(sep, comps, i + 1)

JoinComps(sep, comps) == JoinFrom(sep, comps, 1)

\* The number of leading separators normpath keeps: POSIX keeps exactly two.
InitialSlashes(P, path) ==
    IF path = <<>> \/ path[1] \notin Seps(P) THEN 0
    ELSE IF P = "posix" /\ Len(path) >= 2 /\ path[2] = "/"
            /\ ~(Len(path) >= 3 /\ path[3] = "/")
         THEN 2
    ELSE 1

\* os.path.normpath(path)
NormPath(P, path) ==
    LET n == InitialSlashes(P, path)
    IN CHOOSE r \in
         { IF n = 0 /\ comps = <<>> THEN Dot
           ELSE [k \in 1..n |-> Sep(P)] \o JoinComps(Sep(P), comps) :
             comps \in {NormComps(SplitComps(P, path), 1, n > 0, <<>>)} } : TRUE

(***************************************************************************)
(* re.search with the two patterns of get_apk_info                         *)
(***************************************************************************)
Quote == "'"

LabelKey ==
    <<"a", "p", "p", "l", "i", "c", "a", "t", "i", "o", "n", "-", "l", "a", "b", "e", "l", ":", "'">>

VersionKey ==
    <<"v", "e", "r", "s", "i", "o", "n", "N", "a", "m", "e", "=", "'">>

UnknownApp ==
    <<"U", "n", "k", "n", "o", "w", "n", "A", "p", "p">>

UnknownVersion ==
    <<"U", "n", "k", "n", "o", "w", "n", "V", "e", "r", "s", "i", "o", "n">>

\* The index of the first quote of s at or after j, 0 when there is none.
NextQuote(s, j) == IF \E k \in j..Len(s) : s[k] = Quote
                   THEN Min({k \in j..Len(s) : s[k] = Quote})
                   ELSE 0

\* key'([^']+)' matches at i: the key, one or more characters other than a
\* quote, and a closing quote.
MatchesAt(key, s, i) ==
    /\ StartsWithAt(s, key, i)
    /\ NextQuote(s, i + Len(key)) > i + Len(key)

\* re.search(key + "([^']+)'", s): group(1) of the leftmost match, None
\* when nothing matches.
ReSearch(key, s) ==
    LET at == {i \in 1..Len(s) : MatchesAt(key, s, i)}
    IN IF at = {} THEN None
       ELSE SubSeq(s, Min(at) + Len(key), NextQuote(s, Min(at) + Len(key)) - 1)

\* The sanitization of the application label (line 54).
SanitizeLabel(label) == Replace(Replace(Replace(label, " ", "_"), "/", "_"), "\\", "_")

\* Lines 46-62 of get_apk_info: the pair computed from the tool's output.
ParseAppName(output) ==
    LET label_match == ReSearch(LabelKey, output)
    IN IF label_match # None THEN SanitizeLabel(label_match) ELSE UnknownApp

\* A version with no fallback: None when the output has no versionName.
ParseVersionNameNoFallback(output) == ReSearch(VersionKey, output)

ParseVersionName(output) ==
    LET version_match == ReSearch(VersionKey, output)
    IN IF version_match # None THEN version_match ELSE UnknownVersion

(***************************************************************************)
(* The external tool: what "aapt dump badging" prints for a package whose  *)
(* manifest declares the given label and version name (None: not declared).*)
(***************************************************************************)
PackageLine ==
    <<"p", "a", "c", "k", "a", "g", "e", ":", " ", "n", "a", "m", "e", "=", "'", "p", "'">>

LocaleKey ==
    <<"a", "p", "p", "l", "i", "c", "a", "t", "i", "o", "n", "-", "l", "a", "b", "e", "l", "-", "e", "n", ":", "'">>

Badging(label, version) ==
    PackageLine
    \o (IF version = None THEN <<>> ELSE <<" ">> \o VersionKey \o version \o <<Quote>>)
    \o <<"\n">>
    \o (IF label = None THEN <<>> ELSE LabelKey \o label \o <<Quote, "\n">>)
    \o LocaleKey \o <<"Z", Quote, "\n">>

\* What a file holds, as far as the tool reads it: a package with its
\* manifest, or something the tool rejects.
NotAPackage == [valid |-> FALSE, label |-> None, version |-> None]

Manifests ==
    { [valid |-> TRUE, label |-> <<"A">>,                          version |-> <<"1">>],
      [valid |-> TRUE, label |-> <<"A", " ", "b">>,                version |-> <<"1">>],
      [valid |-> TRUE, label |-> <<"a", "/", "b", "\\", "c">>,     version |-> <<"1">>],
      [valid |-> TRUE, label |-> None,                             version |-> <<"1">>],
      [valid |-> TRUE, label |-> <<"A">>,                          version |-> None],
      [valid |-> TRUE, label |-> <<"A">>,                          version |-> <<>>],
      [valid |-> TRUE, label |-> None,                             version |-> None],
      [valid |-> TRUE, label |-> <<"A">>,                          version |-> <<"1", "/", "2">>],
      [valid |-> TRUE, label |-> <<"A">>,                          version |-> <<"1", "\\", "2">>],
      [valid |-> TRUE, label |-> <<"A">>,                          version |-> <<"/", ".", ".", "/", ".", ".", "/", "v">>] }

(***************************************************************************)
(* The filesystem: a fixed set of directories and a map from the place of  *)
(* each file to what it holds. A place is the sequence of the names from   *)
(* the root.                                                               *)
(***************************************************************************)
\* No place: a name on the way is missing. No place of the model equals it.
NoEnt == << <<"ENOENT">> >>

W == << <<"w">> >>
D == << <<"w">>, <<"d">> >>

Dirs ==
    { <<>>, W, D,
      D \o << <<"A", "_", "1">> >>,
      D \o << <<"A", "_">> >> }

\* The process's working directory.
Cwd == W

Parent(loc) == IF loc = <<>> THEN <<>> ELSE SubSeq(loc, 1, Len(loc) - 1)

\* The place a path names. POSIX walks the directories, so every name before
\* the last must be a directory; "nt" folds ".." before any lookup.
WalkStep(P, loc, c, last) ==
    IF loc = NoEnt \/ c = <<>> \/ c = Dot THEN loc
    ELSE IF c = DotDot THEN Parent(loc)
    ELSE IF P = "posix" /\ ~last /\ Append(loc, c) \notin Dirs THEN NoEnt
    ELSE Append(loc, c)

RECURSIVE Walk(_, _, _, _)
Walk(P, loc, comps, i) ==
    IF i > Len(comps) THEN loc
    ELSE CHOOSE r \in {Walk(P, l, comps, i + 1) :
                          l \in {WalkStep(P, loc, comps[i], i = Len(comps))}} : TRUE

Resolve(P, path) ==
    IF path = <<>> THEN NoEnt
    ELSE CHOOSE r \in {Walk(P, IF path[1] \in Seps(P) THEN <<>> ELSE Cwd, comps, 1) :
                          comps \in {SplitComps(P, path)}} : TRUE

\* os.path.exists(path)
PathExists(P, fs, path) ==
    LET loc == Resolve(P, path)
    IN loc # NoEnt /\ (loc \in DOMAIN fs \/ loc \in Dirs)

\* os.rename between two places when the operating system allows it: the
\* error it raises ("ok" when none) and the filesystem after it. An existing
\* file at the target is replaced on POSIX and is an error on "nt".
OsRenameAt(P, fs, s, d) ==
    IF s = NoEnt \/ s \notin DOMAIN fs THEN [err |-> "OSError", fs |-> fs]
    ELSE IF d = NoEnt \/ Parent(d) \notin Dirs THEN [err |-> "OSError", fs |-> fs]
    ELSE IF d \in Dirs THEN [err |-> "OSError", fs |-> fs]
    ELSE IF d = s THEN [err |-> "ok", fs |-> fs]
    ELSE IF d \in DOMAIN fs /\ P = "nt" THEN [err |-> "OSError", fs |-> fs]
    ELSE [err |-> "ok",
          fs  |-> [l \in (DOMAIN fs \ {s}) \cup {d} |-> IF l = d THEN fs[s] ELSE fs[l]]]

\* os.rename(src, dst)
OsRename(P, fs, src, dst) ==
    CHOOSE r \in {OsRenameAt(P, fs, s, d) :
                     s \in {Resolve(P, src)}, d \in {Resolve(P, dst)}} : TRUE

\* subprocess.run(['aapt', 'dump', 'badging', path], check=True) when the
\* tool is installed and starts: its exit status and standard output. The
\* status is not zero when there is no such file or it is not a package.
Aapt(P, fs, path) ==
    LET loc == Resolve(P, path)
    IN IF loc # NoEnt /\ loc \in DOMAIN fs /\ fs[loc].apk.valid
       THEN [returncode |-> 0, stdout |-> Badging(fs[loc].apk.label, fs[loc].apk.version)]
       ELSE [returncode |-> 1, stdout |-> <<>>]

(***************************************************************************)
(* The inputs: the command line, the dropped files, the files on disk      *)
(***************************************************************************)
\* How many drops the window receives.
MaxDrops == 3

SrcName == <<"x", ".", "A", "P", "K">>
DstName == <<"A", "_", "1", ".", "a", "p", "k">>

SrcLoc == D \o <<SrcName>>
DstLoc == D \o <<DstName>>

RelSrc == <<"d", "/">> \o SrcName
AbsSrc == <<"/", "w", "/", "d", "/">> \o SrcName
RelDst == <<"d", "/">> \o DstName
RelDir == <<"d", "/", "A", "_", "1">>
RelMissing == <<"d", "/", "n", ".", "a", "p", "k">>

\* sys.argv[1:]: nothing (the window opens) or one path.
ArgvChoices == {<<>>, <<RelSrc>>, <<AbsSrc>>, <<RelDst>>, <<RelDir>>, <<RelMissing>>}

\* tk.splitlist(event.data): the dropped paths.
DropChoices ==
    {<<>>, <<RelSrc>>, <<AbsSrc, RelMissing>>, <<RelDst>>, <<RelDir>>, <<RelMissing>>}

\* The files on disk at the start: one file (a package or not) at d/x.APK and
\* possibly a second package, of label A and version 1, at d/A_1.apk.
InitialFiles ==
    LET second == [id |-> 2, apk |-> [valid |-> TRUE, label |-> <<"A">>, version |-> <<"1">>]]
    IN UNION { { [l \in {SrcLoc} |-> [id |-> 1, apk |-> m]],
                 [l \in {SrcLoc, DstLoc} |-> IF l = SrcLoc THEN [id |-> 1, apk |-> m] ELSE second] }
               : m \in Manifests \cup {NotAPackage} }

(***************************************************************************)
(* The state                                                               *)
(***************************************************************************)
VARIABLES
    platform,       \* os.name
    aaptInstalled,  \* whether 'aapt' is on the PATH
    argv,           \* sys.argv[1:]
    files,          \* the files on disk: place -> [id, apk]
    pc,             \* where the process is
    apk_path,       \* rename_apk's argument
    output,         \* result.stdout in get_apk_info
    app_name,       \* the pair get_apk_info returned
    version_name,
    new_filename,   \* rename_apk's locals
    new_filepath,
    notes,          \* the messagebox calls of the current invocation
    drop_label,     \* the text of the drop target
    exitStatus,     \* the status of sys.exit, -1 while the process runs
    trace,          \* the states the current invocation went through
    toolRuns,       \* subprocess.run calls of the current invocation
    renameCalls,    \* os.rename calls of the current invocation
    files0,         \* the files on disk when the current invocation began
    calls,          \* rename_apk invocations of the process
    drops,          \* drop events handled
    prev            \* the invocation before the current one, when it renamed

vars ==
    <<platform, aaptInstalled, argv, files, pc, apk_path, output, app_name,
      version_name, new_filename, new_filepath, notes, drop_label, exitStatus,
      trace, toolRuns, renameCalls, files0, calls, drops, prev>>

env == <<platform, aaptInstalled, argv>>
locals == <<output, app_name, version_name, new_filename, new_filepath>>

Terminal == {"ExtractionFailed", "AlreadyCorrect", "Renamed", "RenameFailed"}

NoPrev == [outcome |-> "none", new_filepath |-> None, output |-> None]

LabelIdle == "Drag & Drop APK File Here"
LabelBusy == "Processing"

Note(fn, title) == [fn |-> fn, title |-> title]

Init ==
    /\ platform \in Platforms
    /\ aaptInstalled \in BOOLEAN
    /\ argv \in ArgvChoices
    /\ files \in InitialFiles
    /\ pc = "Main"
    /\ apk_path = None
    /\ output = None
    /\ app_name = None
    /\ version_name = None
    /\ new_filename = None
    /\ new_filepath = None
    /\ notes = <<>>
    /\ drop_label = LabelIdle
    /\ exitStatus = -1
    /\ trace = <<>>
    /\ toolRuns = 0
    /\ renameCalls = 0
    /\ files0 = files
    /\ calls = 0
    /\ drops = 0
    /\ prev = NoPrev

\* pc moves to state s of the invocation.
Goto(s) == pc' = s /\ trace' = Append(trace, s)

\* rename_apk(path) is called.
Call(path) ==
    /\ pc' = "Start"
    /\ trace' = <<"Start">>
    /\ apk_path' = path
    /\ notes' = <<>>
    /\ toolRuns' = 0
    /\ renameCalls' = 0
    /\ files0' = files
    /\ calls' = calls + 1
    /\ UNCHANGED <<env, files, locals>>

(***************************************************************************)
(* __main__ (lines 217-232)                                                *)
(***************************************************************************)
\* A check of the extension alone, without os.path.exists.
IsValidApkPathUnchecked(P, fs, p) == EndsWith(Lower(p), ApkExt)

\* The check of line 221.
IsValidApkPath(P, fs, p) == PathExists(P, fs, p) /\ EndsWith(Lower(p), ApkExt)

MainRename ==
    /\ pc = "Main" /\ Len(argv) > 0
    /\ IsValidApkPath(platform, files, argv[1])
    /\ Call(argv[1])
    /\ UNCHANGED <<drop_label, exitStatus, drops, prev>>

MainInvalid ==
    /\ pc = "Main" /\ Len(argv) > 0
    /\ ~IsValidApkPath(platform, files, argv[1])
    /\ notes' = Append(notes, Note("showerror", "Error"))
    /\ exitStatus' = 1
    /\ pc' = "Exited"
    /\ UNCHANGED <<env, files, apk_path, locals, drop_label, trace, toolRuns,
                   renameCalls, files0, calls, drops, prev>>

MainWindow ==
    /\ pc = "Main" /\ Len(argv) = 0
    /\ pc' = "Idle"
    /\ UNCHANGED <<env, files, apk_path, locals, notes, drop_label, exitStatus,
                   trace, toolRuns, renameCalls, files0, calls, drops, prev>>

\* sys.exit(0) after rename_apk returned (line 223).
MainExit ==
    /\ pc \in Terminal /\ Len(argv) > 0
    /\ pc' = "Exited"
    /\ exitStatus' = 0
    /\ UNCHANGED <<env, files, apk_path, locals, notes, drop_label, trace,
                   toolRuns, renameCalls, files0, calls, drops, prev>>

(***************************************************************************)
(* handle_drop (lines 185-210)                                             *)
(***************************************************************************)
\* What may be dropped: the fixed choices and the path of the last rename.
Droppable ==
    DropChoices \cup (IF prev.outcome = "Renamed" THEN {<<prev.new_filepath>>} ELSE {})

HandleDropNothing ==
    /\ pc = "Idle" /\ drops < MaxDrops
    /\ drops' = drops + 1
    /\ UNCHANGED <<env, files, pc, apk_path, locals, notes, drop_label, exitStatus,
                   trace, toolRuns, renameCalls, files0, calls, prev>>

HandleDropApk ==
    /\ pc = "Idle" /\ drops < MaxDrops
    /\ \E data \in Droppable :
        /\ Len(data) > 0
        /\ EndsWith(Lower(data[1]), ApkExt)
        /\ Call(data[1])
    /\ drop_label' = LabelBusy
    /\ drops' = drops + 1
    /\ UNCHANGED <<exitStatus, prev>>

HandleDropOther ==
    /\ pc = "Idle" /\ drops < MaxDrops
    /\ \E data \in Droppable :
        /\ Len(data) > 0
        /\ ~EndsWith(Lower(data[1]), ApkExt)
    /\ notes' = <<Note("showwarning", "Invalid File")>>
    /\ drop_label' = LabelIdle
    /\ drops' = drops + 1
    /\ UNCHANGED <<env, files, pc, apk_path, locals, exitStatus, trace, toolRuns,
                   renameCalls, files0, calls, prev>>

\* rename_apk returned: the label is reset (line 205).
HandleDropDone ==
    /\ pc \in Terminal /\ Len(argv) = 0
    /\ pc' = "Idle"
    /\ drop_label' = LabelIdle
    /\ prev' = IF pc = "Renamed"
               THEN [outcome |-> "Renamed", new_filepath |-> new_filepath, output |-> output]
               ELSE NoPrev
    /\ apk_path' = None
    /\ output' = None
    /\ app_name' = None
    /\ version_name' = None
    /\ new_filename' = None
    /\ new_filepath' = None
    /\ UNCHANGED <<env, files, notes, exitStatus, trace, toolRuns, renameCalls,
                   files0, calls, drops>>

(***************************************************************************)
(* get_apk_info (lines 22-77), called at line 88                           *)
(***************************************************************************)
\* Line 88 enters get_apk_info, which builds the command (line 38).
GetApkInfoBegin ==
    /\ pc = "Start"
    /\ Goto("Extracting")
    /\ UNCHANGED <<env, files, apk_path, locals, notes, drop_label, exitStatus,
                   toolRuns, renameCalls, files0, calls, drops, prev>>

\* A failed extraction that returns (None, None) without showing anything.
ExtractionFailsSilently ==
    /\ toolRuns' = toolRuns + 1
    /\ app_name' = None
    /\ version_name' = None
    /\ Goto("ExtractionFailed")
    /\ UNCHANGED <<env, files, apk_path, output, new_filename, new_filepath, notes,
                   drop_label, exitStatus, renameCalls, files0, calls, drops, prev>>

\* get_apk_info shows an error and returns (None, None).
ExtractionFails ==
    /\ toolRuns' = toolRuns + 1
    /\ notes' = Append(notes, Note("showerror", "Error"))
    /\ app_name' = None
    /\ version_name' = None
    /\ Goto("ExtractionFailed")
    /\ UNCHANGED <<env, files, apk_path, output, new_filename, new_filepath,
                   drop_label, exitStatus, renameCalls, files0, calls, drops, prev>>

\* subprocess.run raises FileNotFoundError: there is no 'aapt' (lines 64-69).
GetApkInfoToolNotFound ==
    /\ pc = "Extracting"
    /\ ~aaptInstalled
    /\ ExtractionFails

\* The tool exits with a non-zero status: CalledProcessError (lines 70-73).
GetApkInfoToolFailed ==
    /\ pc = "Extracting"
    /\ aaptInstalled
    /\ Aapt(platform, files, apk_path).returncode # 0
    /\ ExtractionFails

\* Anything else goes wrong starting the tool or decoding what it printed
\* (lines 74-77).
GetApkInfoUnexpected ==
    /\ pc = "Extracting"
    /\ aaptInstalled
    /\ ExtractionFails

\* The tool exits with status 0 and its output is parsed (lines 43-62).
GetApkInfoParsed ==
    /\ pc = "Extracting"
    /\ aaptInstalled
    /\ \E result \in {Aapt(platform, files, apk_path)} :
          /\ result.returncode = 0
          /\ output' = result.stdout
          /\ app_name' = ParseAppName(result.stdout)
          /\ version_name' = ParseVersionName(result.stdout)
    /\ toolRuns' = toolRuns + 1
    /\ Goto("Extracted")
    /\ UNCHANGED <<env, files, apk_path, new_filename, new_filepath, notes,
                   drop_label, exitStatus, renameCalls, files0, calls, drops, prev>>

(***************************************************************************)
(* rename_apk (lines 80-118)                                               *)
(***************************************************************************)
\* The test of line 91: get_apk_info returned no metadata.
ExtractionFailed(name, version) == name = None \/ version = None

\* Line 100.
NewFilename(name, version) == name \o <<"_">> \o version \o ApkExt

\* Lines 95 and 102.
NewFilepath(P, path, name, version) ==
    LET directory == PathSplit(P, path)[1]
    IN PathJoin(P, directory, NewFilename(name, version))

\* A comparison of the paths as written, without normpath.
AlreadyNamedAsWritten(P, path, new_path) == path = new_path

\* The test of line 106.
AlreadyNamed(P, path, new_path) == NormPath(P, path) = NormPath(P, new_path)

\* Lines 91-102: the new name and path are computed.
ComputeNewPath ==
    /\ pc = "Extracted"
    /\ ~ExtractionFailed(app_name, version_name)
    /\ new_filename' = NewFilename(app_name, version_name)
    /\ new_filepath' = NewFilepath(platform, apk_path, app_name, version_name)
    /\ Goto("Comparing")
    /\ UNCHANGED <<env, files, apk_path, output, app_name, version_name, notes,
                   drop_label, exitStatus, toolRuns, renameCalls, files0, calls,
                   drops, prev>>

\* Lines 106-108: the file already has its name.
RenameApkAlreadyNamed ==
    /\ pc = "Comparing"
    /\ AlreadyNamed(platform, apk_path, new_filepath)
    /\ notes' = Append(notes, Note("showinfo", "Info"))
    /\ Goto("AlreadyCorrect")
    /\ UNCHANGED <<env, files, apk_path, locals, drop_label, exitStatus, toolRuns,
                   renameCalls, files0, calls, drops, prev>>

\* Line 106 is false: os.rename is about to be called.
RenameApkBegin ==
    /\ pc = "Comparing"
    /\ ~AlreadyNamed(platform, apk_path, new_filepath)
    /\ Goto("Renaming")
    /\ UNCHANGED <<env, files, apk_path, locals, notes, drop_label, exitStatus,
                   toolRuns, renameCalls, files0, calls, drops, prev>>

\* Lines 111-112: os.rename returns.
RenameApkRenamed ==
    /\ pc = "Renaming"
    /\ \E r \in {OsRename(platform, files, apk_path, new_filepath)} :
          /\ r.err = "ok"
          /\ files' = r.fs
    /\ renameCalls' = renameCalls + 1
    /\ notes' = Append(notes, Note("showinfo", "Success"))
    /\ Goto("Renamed")
    /\ UNCHANGED <<env, apk_path, locals, drop_label, exitStatus, toolRuns,
                   files0, calls, drops, prev>>

\* A failed rename that is tried a second time before it is reported.
RenameApkFailedRetries ==
    /\ pc = "Renaming"
    /\ \E refused \in BOOLEAN :
        refused \/ OsRename(platform, files, apk_path, new_filepath).err # "ok"
    /\ renameCalls' = renameCalls + 1
    /\ IF renameCalls = 0
       THEN Goto("Renaming") /\ notes' = notes
       ELSE Goto("RenameFailed") /\ notes' = Append(notes, Note("showerror", "Error"))
    /\ UNCHANGED <<env, files, apk_path, locals, drop_label, exitStatus, toolRuns,
                   files0, calls, drops, prev>>

\* Lines 113-118: os.rename raises, either for what is on disk or because
\* the operating system refuses (permissions, a file in use).
RenameApkFailed ==
    /\ pc = "Renaming"
    /\ \E refused \in BOOLEAN :
        refused \/ OsRename(platform, files, apk_path, new_filepath).err # "ok"
    /\ renameCalls' = renameCalls + 1
    /\ notes' = Append(notes, Note("showerror", "Error"))
    /\ Goto("RenameFailed")
    /\ UNCHANGED <<env, files, apk_path, locals, drop_label, exitStatus, toolRuns,
                   files0, calls, drops, prev>>

(***************************************************************************)
(* The specification                                                       *)
(***************************************************************************)
Next ==
    \/ MainRename
    \/ MainInvalid
    \/ MainWindow
    \/ MainExit
    \/ HandleDropNothing
    \/ HandleDropApk
    \/ HandleDropOther
    \/ HandleDropDone
    \/ GetApkInfoBegin
    \/ GetApkInfoToolNotFound
    \/ GetApkInfoToolFailed
    \/ GetApkInfoUnexpected
    \/ GetApkInfoParsed
    \/ ComputeNewPath
    \/ RenameApkAlreadyNamed
    \/ RenameApkBegin
    \/ RenameApkRenamed
    \/ RenameApkFailed

Spec == Init /\ [][Next]_vars

\* The tool and every notification return, and the window handles what is
\* dropped on it.
FairSpec == Spec /\ WF_vars(Next)

(***************************************************************************)
(* What the claims speak of                                                *)
(***************************************************************************)
\* rename_apk is running or has just ended.
InInvocation == pc \notin {"Main", "Idle", "Exited"}

\* The place of the source file when the invocation began.
SourcePlace == Resolve(platform, apk_path)

SourceExisted == SourcePlace # NoEnt /\ SourcePlace \in DOMAIN files0

\* The file of identity id is on disk under the name path.
HeldUnder(fs, path, id) ==
    LET loc == Resolve(platform, path)
    IN path # None /\ loc # NoEnt /\ loc \in DOMAIN fs /\ fs[loc].id = id

SameName == NormPath(platform, apk_path) = NormPath(platform, new_filepath)

\* The place where the file of identity id is, in fs.
PlaceOf(fs, id) == CHOOSE loc \in DOMAIN fs : fs[loc].id = id

(***************************************************************************)
(* C1: whatever the outcome of rename_apk on an existing source file, the  *)
(* file is still under its original name, or it is under the computed new  *)
(* name and no longer under the old one; both names hold it only when the  *)
(* old name and the new name are the same.                                 *)
(***************************************************************************)
C1_ContentNeverLost ==
    (pc \in Terminal /\ SourceExisted) =>
        LET id  == files0[SourcePlace].id
            old == HeldUnder(files, apk_path, id)
            new == HeldUnder(files, new_filepath, id)
        IN /\ old \/ (new /\ ~old)
           /\ (old /\ new) => SameName
           /\ Cardinality({loc \in DOMAIN files : files[loc].id = id}) = 1

C1_Witness ==
    /\ pc = "Renamed" /\ SourceExisted
    /\ ~SameName
    /\ HeldUnder(files, new_filepath, files0[SourcePlace].id)
    /\ ~HeldUnder(files, apk_path, files0[SourcePlace].id)

(***************************************************************************)
(* C2: os.rename is attempted only when get_apk_info returned metadata and *)
(* the normalized source path differs from the normalized target path;     *)
(* when extraction fails or the paths are equal, rename_apk ends with the  *)
(* filesystem unchanged.                                                   *)
(***************************************************************************)
C2_RenameOnlyWhenNeeded ==
    InInvocation =>
        /\ (pc = "Renaming" \/ renameCalls > 0) =>
              /\ app_name # None /\ version_name # None
              /\ ~SameName
        /\ pc \in {"ExtractionFailed", "AlreadyCorrect"} =>
              /\ renameCalls = 0
              /\ files = files0
        /\ (pc = "Comparing" /\ SameName) => files = files0

C2_Witness ==
    /\ pc = "Renamed" /\ renameCalls = 1
    /\ app_name # None /\ version_name # None
    /\ ~SameName
    /\ files # files0

(***************************************************************************)
(* C3: after a call of rename_apk that renamed the file, a second call on  *)
(* the resulting new path with the same tool output ends as "already       *)
(* correctly named", with no further rename and no error.                  *)
(***************************************************************************)
C3_SecondCallIsNoOp ==
    (/\ pc \in Terminal
     /\ prev.outcome = "Renamed"
     /\ apk_path = prev.new_filepath
     /\ output = prev.output) =>
        /\ pc = "AlreadyCorrect"
        /\ renameCalls = 0

(***************************************************************************)
(* C4: when a file other than the source is already at the computed target *)
(* path, the rename step fails: rename_apk ends in the failed outcome, the *)
(* file that was at the target keeps its content and the source keeps its  *)
(* name.                                                                   *)
(***************************************************************************)
TargetPlace == Resolve(platform, new_filepath)

TargetTaken ==
    /\ SourceExisted
    /\ TargetPlace # NoEnt
    /\ TargetPlace \in DOMAIN files0
    /\ TargetPlace # SourcePlace

C4_ExistingTargetFailsFast ==
    (renameCalls > 0 /\ pc \in Terminal /\ TargetTaken) =>
        /\ pc = "RenameFailed"
        /\ files = files0

(***************************************************************************)
(* C5: started with one path argument, the process calls rename_apk once   *)
(* and exits with status 0 when the path exists and ends, in any case of   *)
(* letters, with ".apk"; otherwise it reports an error, never calls        *)
(* rename_apk and exits with status 1.                                     *)
(***************************************************************************)
C5_EndsWithApk(p) ==
    /\ Len(p) >= 4
    /\ p[Len(p) - 3] = "."
    /\ p[Len(p) - 2] \in {"a", "A"}
    /\ p[Len(p) - 1] \in {"p", "P"}
    /\ p[Len(p)] \in {"k", "K"}

C5_ArgumentIsApk ==
    /\ C5_EndsWithApk(argv[1])
    /\ LET loc == Resolve(platform, argv[1])
       IN loc # NoEnt /\ (loc \in DOMAIN files0 \/ loc \in Dirs)

C6_NoteOf(outcome) ==
    CASE outcome = "ExtractionFailed" -> Note("showerror", "Error")
      [] outcome = "RenameFailed" -> Note("showerror", "Error")
      [] outcome = "AlreadyCorrect" -> Note("showinfo", "Info")
      [] outcome = "Renamed" -> Note("showinfo", "Success")

C6_OneNotification ==
    InInvocation =>
        /\ pc \in Terminal => notes = <<C6_NoteOf(pc)>>
        /\ pc \notin Terminal => (notes = <<>> /\ ENABLED Next)

C6_Witness ==
    /\ pc = "Renamed"
    /\ notes = <<Note("showinfo", "Success")>>

(***************************************************************************)
(* C7: the label is used in the computed filename with every space, "/"    *)
(* and "\" replaced by "_", so that the computed filename holds neither    *)
(* "/" nor "\".                                                            *)
(***************************************************************************)
Manifest == files0[SourcePlace].apk

C7_Sanitized(label) ==
    [i \in 1..Len(label) |-> IF label[i] \in {" ", "/", "\\"} THEN "_" ELSE label[i]]

C7_FilenameHasNoSeparator ==
    (InInvocation /\ new_filename # None) =>
        /\ Manifest.label # None =>
              SubSeq(new_filename, 1, Len(Manifest.label)) = C7_Sanitized(Manifest.label)
        /\ \A i \in 1..Len(new_filename) : new_filename[i] \notin {"/", "\\"}

C9_Edges ==
    { <<"Start", "Extracting">>,
      <<"Extracting", "ExtractionFailed">>,
      <<"Extracting", "Extracted">>,
      <<"Extracted", "Comparing">>,
      <<"Comparing", "AlreadyCorrect">>,
      <<"Comparing", "Renaming">>,
      <<"Renaming", "Renamed">>,
      <<"Renaming", "RenameFailed">> }

C9_Runs ==
    { <<"Start", "Extracting", "ExtractionFailed">>,
      <<"Start", "Extracting", "Extracted", "Comparing", "AlreadyCorrect">>,
      <<"Start", "Extracting", "Extracted", "Comparing", "Renaming", "Renamed">>,
      <<"Start", "Extracting", "Extracted", "Comparing", "Renaming", "RenameFailed">> }

C9_AtEnd ==
    pc \in Terminal =>
        /\ trace \in C9_Runs
        /\ trace[Len(trace)] = pc
        /\ toolRuns = 1
        /\ renameCalls = (IF pc \in {"Renamed", "RenameFailed"} THEN 1 ELSE 0)
        /\ pc # "Renamed" => files = files0

C9_Step ==
    /\ (pc \in {e[1] : e \in C9_Edges} /\ pc' # pc) => <<pc, pc'>> \in C9_Edges
    /\ (pc \in Terminal /\ pc' # pc) => pc' \in {"Idle", "Exited"}
    /\ (pc' \in {e[2] : e \in C9_Edges} /\ pc' # pc) => <<pc, pc'>> \in C9_Edges
    /\ toolRuns' # toolRuns => (toolRuns' = 1 \/ pc' = "Start")
    /\ (InInvocation /\ pc \notin Terminal /\ files' # files) => pc' = "Renamed"

C9_StateMachine ==
    /\ []C9_AtEnd
    /\ [][C9_Step]_vars
    /\ (pc = "Start") ~> (pc \in Terminal)

C9_Witness ==
    /\ pc = "RenameFailed"
    /\ trace = <<"Start", "Extracting", "Extracted", "Comparing", "Renaming", "RenameFailed">>
    /\ toolRuns = 1 /\ renameCalls = 1

(***************************************************************************)
(* C10: whatever label and version the tool output yields, the target of   *)
(* the rename is directly in the directory of the source file: a rename    *)
(* changes the name of the file and never its directory.                   *)
(***************************************************************************)
C10_TargetInSourceDirectory ==
    (pc \in {"Renaming", "Renamed", "RenameFailed"} /\ SourceExisted) =>
        /\ TargetPlace # NoEnt => Parent(TargetPlace) = Parent(SourcePlace)
        /\ pc = "Renamed" =>
              Parent(PlaceOf(files, files0[SourcePlace].id)) = Parent(SourcePlace)

=============================================================================
